---- MODULE Spec2Model ----
(***************************************************************************)
(* SNIP dashboard (src/dashboard.py): the Dash callback update_graph, the  *)
(* input helper handle_inputs and the loader read_harv_processed.          *)
(*                                                                         *)
(* Numbers.  Every finite float or int of the program is an Int counted in *)
(* hundredths (1.33 is 133, 50 is 5000).  A threshold t enters the program *)
(* only through comparisons x > t or x < t with x a multiple of 0.01, and  *)
(* for such x, x > t is the same as x > floor(t): thresholds are floored   *)
(* to hundredths.  The float values inf, -inf and nan that np.log10 yields *)
(* for a non-positive argument are kept apart from the finite ones.        *)
(***************************************************************************)
EXTENDS Integers, Sequences, FiniteSets, TLC

\* ------------------------------------------------------------------ bounds
MaxChr == 2
MaxAverages == 2
MaxTavg == 2
MaxRows == 2
SessionMaxRows == 2

\* ------------------------------------------------------- program constants
\* len(chromosomes_list)
NumChromosomes == 5
\* np.log10(0.05 / 10709466) * (-1) = 8.3307978..., floored to hundredths
bonferroni == 833
\* the floor of dff["GQS"] > 3
GQSFloor == 300
\* handle_inputs(..., default_value = 0)
DefaultValue == 0
\* the layout's initial component values
FactorValue == 133
PeakCountValue == 5000
MaxSpacingValue == 2000000
MinVbalValue == 10

\* ------------------------------------------------------------------ state
\* The components' values (the callback's Inputs), the two Output
\* components, how the last callback ended and how the one before it did,
\* the table on show when the last callback began, and the record of the
\* session's first run (its inputs and what it returned).
VARIABLES
    filename, top_avg, factor, peak_count, max_spacing, min_vbal,
    man_plot, called_table,
    outcome, previous, shown, first

inputs == <<filename, top_avg, factor, peak_count, max_spacing, min_vbal>>
outputs == <<man_plot, called_table>>
history == <<previous, shown, first>>
vars == <<inputs, outputs, outcome, history>>

\* --------------------------------------------------------- python values
\* A component value as the callback receives it: None, a str or a number.
None == [k |-> "none", s |-> "", n |-> 0]
Str(s) == [k |-> "str", s |-> s, n |-> 0]
Num(n) == [k |-> "num", s |-> "", n |-> n]

\* A float: finite (v in hundredths), inf, -inf or nan.
Fin(v) == [k |-> "fin", v |-> v]
Inf == [k |-> "inf", v |-> 0]
NInf == [k |-> "ninf", v |-> 0]
NaN == [k |-> "nan", v |-> 0]

\* The result of a call: a value, or the exception it raised.
Value(n) == [raises |-> "", value |-> n]
Raises(e) == [raises |-> e, value |-> 0]

\* x > y for a finite x and a float y (IEEE: nothing is > inf or > nan).
GtOrEqual(x, y) ==
    CASE y.k = "fin" -> x >= y.v
      [] y.k = "ninf" -> TRUE
      [] OTHER -> FALSE

Gt(x, y) ==
    CASE y.k = "fin" -> x > y.v
      [] y.k = "ninf" -> TRUE
      [] OTHER -> FALSE

\* f * (-1)
Negate(f) ==
    CASE f.k = "fin" -> Fin(-f.v)
      [] f.k = "inf" -> NInf
      [] f.k = "ninf" -> Inf
      [] OTHER -> NaN

\* f * m for a finite m in hundredths (inf * 0 is nan), floored to hundredths
Times(f, m) ==
    CASE f.k = "fin" -> Fin((f.v * m) \div 100)
      [] f.k = "nan" -> NaN
      [] m = 0 -> NaN
      [] (f.k = "inf") = (m > 0) -> Inf
      [] OTHER -> NInf

\* float(s) for the strings of a file's first line: a power of ten
\* 10^(e/100) with its sign, or zero.
FloatOfStr(s) ==
    CASE s = "1e-09" -> [sign |-> 1, e |-> -900]
      [] s = "1e-07" -> [sign |-> 1, e |-> -700]
      [] s = "10" -> [sign |-> 1, e |-> 100]
      [] s = "0" -> [sign |-> 0, e |-> 0]
      [] s = "-1" -> [sign |-> -1, e |-> 0]

\* np.log10: -inf at zero, nan below zero
Log10(x) ==
    CASE x.sign = 1 -> Fin(x.e)
      [] x.sign = 0 -> NInf
      [] OTHER -> NaN

\* astype(float) on a cell of the GQS column
AsFloat(s) ==
    CASE s = "3" -> 300
      [] s = "3.5" -> 350
      [] s = "4" -> 400

\* int(input), float(input) of a component value
Truncate(n) == IF n >= 0 THEN (n \div 100) * 100 ELSE -(((-n) \div 100) * 100)

PyInt(input) ==
    CASE input.k = "num" -> Value(Truncate(input.n))
      [] input.k = "str" /\ input.s = "51" -> Value(5100)
      [] OTHER -> Raises("ValueError")

PyFloat(input) ==
    CASE input.k = "num" -> Value(input.n)
      [] input.k = "str" /\ input.s = "51" -> Value(5100)
      [] input.k = "str" /\ input.s = "1.5" -> Value(150)
      [] OTHER -> Raises("ValueError")

new_type_call(new_type, input) ==
    IF new_type = "int" THEN PyInt(input) ELSE PyFloat(input)

\* handle_inputs: input is not None and len(str(input)) > 0
handle_inputs(input, new_type, default_value) ==
    IF input.k # "none" /\ ~(input.k = "str" /\ input.s = "")
    THEN new_type_call(new_type, input)
    ELSE Value(default_value)

\* noise_borders[tavg]: a list index (negative indices count from the end)
ListIndex(list, i) ==
    CASE i.k # "num" -> Raises("TypeError")
      [] i.n >= 0 /\ i.n < Len(list) -> Value(i.n + 1)
      [] i.n < 0 /\ -i.n <= Len(list) -> Value(Len(list) + i.n + 1)
      [] OTHER -> Raises("IndexError")

\* np.log10(float(noise_borders[tavg])) * (-1) * fact, given the 1-based
\* position of the selected average
noise_border_of(noise_borders, at, fact) ==
    Times(Negate(Log10(FloatOfStr(noise_borders[at]))), fact)

\* ------------------------------------------------------------ data frames
\* line 203: np.log10(p_wald) * (-1); p_wald is held as log10 of the
\* p-value in hundredths (-1200 is p = 1e-12)
LOD(p_wald) == p_wald * (-1)

\* read_harv_processed and line 203: the first line's strings, and the
\* table with the RangeIndex pandas gives its rows and the LOD column.
read_harv_processed(file) ==
    [df |-> [i \in 1..Len(file.rows) |->
                [idx |-> i,
                 chr |-> file.rows[i].chr,
                 LOD |-> LOD(file.rows[i].p_wald),
                 GQS |-> file.rows[i].GQS,
                 count |-> file.rows[i].count,
                 spacing |-> file.rows[i].spacing,
                 vbal1 |-> file.rows[i].vbal1]],
     averages |-> file.averages]

\* df[mask]: the rows that pass, in the frame's order
RECURSIVE Select(_, _)
Select(df, keep) ==
    IF df = <<>> THEN <<>>
    ELSE IF keep[1] THEN <<df[1]>> \o Select(Tail(df), Tail(keep))
    ELSE Select(Tail(df), Tail(keep))

\* df_trim[df_trim["chr"] == chromosome]
ChrFrame(df, chromosome) ==
    Select(df, [i \in 1..Len(df) |-> df[i].chr = chromosome])

\* lines 246-248: the rows with a GQS, as floats, above the floor
HarvesterCalledUnfiltered(df_chr) == df_chr

HarvesterCalled(df_chr) ==
    LET present == Select(df_chr, [i \in 1..Len(df_chr) |-> df_chr[i].GQS # "None"])
        floats == [i \in 1..Len(present) |->
                     [present[i] EXCEPT !.GQS = AsFloat(present[i].GQS)]]
    IN Select(floats, [i \in 1..Len(floats) |-> floats[i].GQS > GQSFloor])

\* lines 288-292: one row's mask
CalledMaskCountOrEqual(row, noise, peak_c, max_spac, min_vb) ==
    /\ Gt(row.LOD, noise)
    /\ row.LOD > bonferroni
    /\ row.count >= peak_c
    /\ row.spacing < max_spac
    /\ row.vbal1 > min_vb

CalledMaskBelowNoise(row, noise, peak_c, max_spac, min_vb) ==
    /\ ~Gt(row.LOD, noise)
    /\ row.LOD > bonferroni
    /\ row.count > peak_c
    /\ row.spacing < max_spac
    /\ row.vbal1 > min_vb

CalledMask(row, noise, peak_c, max_spac, min_vb) ==
    /\ Gt(row.LOD, noise)
    /\ row.LOD > bonferroni
    /\ row.count > peak_c
    /\ row.spacing < max_spac
    /\ row.vbal1 > min_vb

Called(dff, noise, peak_c, max_spac, min_vb) ==
    Select(dff, [i \in 1..Len(dff) |->
                    CalledMask(dff[i], noise, peak_c, max_spac, min_vb)])

\* lines 227-331: the five traces one pass of the loop adds to the figure
TracesApart(df_trim, chromosome, noise, peak_c, max_spac, min_vb) ==
    LET df_chr == ChrFrame(df_trim, chromosome)
        dff == HarvesterCalled(df_chr)
        called == Called(dff, noise, peak_c, max_spac, min_vb)
    IN [not_called |->
            Select(df_chr, [i \in 1..Len(df_chr) |->
                               \A j \in 1..Len(dff) : dff[j].idx # df_chr[i].idx]),
        harvester_called |->
            Select(dff, [i \in 1..Len(dff) |->
                            \A j \in 1..Len(called) : called[j].idx # dff[i].idx]),
        called |-> called,
        noise |-> [i \in 1..Len(df_chr) |-> noise],
        bonferroni |-> [i \in 1..Len(df_chr) |-> bonferroni]]

Traces(df_trim, chromosome, noise, peak_c, max_spac, min_vb) ==
    LET df_chr == ChrFrame(df_trim, chromosome)
        dff == HarvesterCalled(df_chr)
    IN [not_called |-> df_chr,
        harvester_called |-> dff,
        called |-> Called(dff, noise, peak_c, max_spac, min_vb),
        noise |-> [i \in 1..Len(df_chr) |-> noise],
        bonferroni |-> [i \in 1..Len(df_chr) |-> bonferroni]]

\* line 224: table_list = []
LeftoverList == <<called_table>>

EmptyList == <<>>

\* pandas.concat(table_list)
RECURSIVE ConcatLastFirst(_)
ConcatLastFirst(frames) ==
    IF frames = <<>> THEN <<>>
    ELSE ConcatLastFirst(Tail(frames)) \o Head(frames)

RECURSIVE Concat(_)
Concat(frames) ==
    IF frames = <<>> THEN <<>> ELSE Head(frames) \o Concat(Tail(frames))

\* lines 198-201: the dropdown is single-valued, so filen is never a list,
\* and pathway + filen raises on the None of a cleared dropdown
read_file(filen) ==
    IF filen.k = "none" THEN Raises("TypeError")
    ELSE Value(read_harv_processed(filen))

\* update_graph: what it returns, or the exception of the first statement
\* that raises (line 199, then lines 209-215 in this order).  The rows of
\* data keep the index of their frame, which to_dict drops.
update_graph(filen, tavg, fact, peak_c, max_spac, min_vb) ==
    LET opened == read_file(filen)
        read == opened.value
        fact_f == handle_inputs(fact, "float", DefaultValue)
        at == ListIndex(read.averages, tavg)
        peak_c_i == handle_inputs(peak_c, "int", DefaultValue)
        max_spac_i == handle_inputs(max_spac, "int", DefaultValue)
        min_vb_f == handle_inputs(min_vb, "float", DefaultValue)
        raised ==
            CASE opened.raises # "" -> opened.raises
              [] fact_f.raises # "" -> fact_f.raises
              [] at.raises # "" -> at.raises
              [] peak_c_i.raises # "" -> peak_c_i.raises
              [] max_spac_i.raises # "" -> max_spac_i.raises
              [] OTHER -> min_vb_f.raises
        noise == noise_border_of(read.averages, at.value, fact_f.value)
        fig == [chromosome \in 1..NumChromosomes |->
                   Traces(read.df, chromosome, noise, peak_c_i.value,
                          max_spac_i.value, min_vb_f.value)]
        table_list == EmptyList \o [chromosome \in 1..NumChromosomes |->
                                       fig[chromosome].called]
    IN IF raised # ""
       THEN [raises |-> raised, fig |-> <<>>, data |-> <<>>]
       ELSE [raises |-> "", fig |-> fig, data |-> Concat(table_list)]

\* ---------------------------------------------------------------- inputs
\* All sequences over S of a length in lo..hi
SeqsOf(S, lo, hi) == UNION {[1..n -> S] : n \in lo..hi}

\* The rows of a harv_processed table; p-values lie in (0, 1].
RowsOf(chrs, ps, gqss, counts, spacings, vbals) ==
    [chr : chrs, p_wald : ps, GQS : gqss, count : counts,
     spacing : spacings, vbal1 : vbals]

\* The value of the 'Select file' dropdown: the name of a file of the
\* directory, held as what the file contains, or None once cleared.
FilesOf(averages, rows) == [k : {"str"}, averages : averages, rows : rows]

NoFile == [k |-> "none", averages |-> <<>>, rows |-> <<>>]

\* Markers on either side of every test of lines 246-292 at the layout's
\* values: LOD 8.33, 8.34, 9, 12 against bonferroni and the noise borders
\* 9 (1e-09 times 1) and 11.97 (1e-09 times 1.33).
AnyRows ==
    RowsOf(1..MaxChr, {-833, -834, -900, -1200}, {"None", "3", "4"},
           {5000, 5100}, {1999900, 2000000}, {10, 11})

\* Markers that differ in chromosome, GQS and count alone
PlainRows ==
    RowsOf(1..MaxChr, {-1200}, {"3", "4"}, {5000, 5100}, {1999900}, {11})

\* One-row tables of any marker (the masks of lines 246-292 are row by
\* row) under any averages, and tables of up to MaxRows plain markers.
AnyFiles ==
    FilesOf(SeqsOf({"1e-09", "10", "0", "-1"}, 1, MaxAverages),
            SeqsOf(AnyRows, 1, 1))

PlainFiles == FilesOf({<<"1e-09">>}, SeqsOf(PlainRows, 0, MaxRows))

\* The files of the directory in a dashboard session: tables of
\* SessionMaxRows markers on the first two chromosomes, in either order,
\* each accepted at the layout's values
SessionRows ==
    RowsOf({1, 2}, {-1200}, {"4"}, {5100}, {1999900}, {11})

SessionFiles ==
    FilesOf({<<"1e-09">>}, SeqsOf(SessionRows, SessionMaxRows, SessionMaxRows))

\* What the components can send: the dropdown's options or a cleared
\* dropdown; a number, nothing, an empty or a non-numeric string.
\* (a dropdown option is a list index, not a number in hundredths)
TopAvgValues == {None} \cup {Num(i) : i \in 0..MaxTavg}
FactorValues == {None, Str(""), Str("abc"), Num(FactorValue), Num(100)}
PeakCountValues == {None, Str("abc"), Num(PeakCountValue)}
MaxSpacingValues == {None, Str("abc"), Num(MaxSpacingValue)}
MinVbalValues == {None, Str("abc"), Num(MinVbalValue)}

\* What a session's user does with them (at a peak count of 51 no marker
\* of a session's files is accepted)
SessionFileValues == {NoFile} \cup SessionFiles
SessionTopAvgValues == {None, Num(0), Num(1)}
SessionFactorValues == {None, Str("abc"), Num(FactorValue)}
SessionPeakCountValues == {Num(PeakCountValue), Num(5100)}
SessionMaxSpacingValues == {None, Num(MaxSpacingValue)}
SessionMinVbalValues == {None, Num(MinVbalValue)}

\* ---------------------------------------------------------------- actions
\* Before a session's first run
NoRun == [inputs |-> <<>>, raises |-> "none", fig |-> <<>>, data |-> <<>>]

\* Dash calls update_graph with the components' values (lines 161-173) and
\* sets the outputs to what it returns; when it raises, the outputs stay.
Callback ==
    /\ outcome = "pending"
    /\ LET r == update_graph(filename, top_avg, factor, peak_count,
                             max_spacing, min_vbal)
       IN /\ IF r.raises # ""
             THEN /\ outcome' = r.raises
                  /\ UNCHANGED outputs
             ELSE /\ outcome' = "returned"
                  /\ man_plot' = r.fig
                  /\ called_table' = r.data
          /\ first' = IF previous = "none"
                      THEN [inputs |-> inputs, raises |-> r.raises,
                            fig |-> r.fig, data |-> r.data]
                      ELSE first
    /\ shown' = called_table
    /\ UNCHANGED <<inputs, previous>>

\* A component's value changes, which makes the callback due.
SelectFile ==
    /\ outcome # "pending"
    /\ \E f \in SessionFileValues : f # filename /\ filename' = f
    /\ outcome' = "pending"
    /\ previous' = outcome
    /\ UNCHANGED <<top_avg, factor, peak_count, max_spacing, min_vbal, outputs, shown, first>>

SelectTopAvg ==
    /\ outcome # "pending"
    /\ \E v \in SessionTopAvgValues : v # top_avg /\ top_avg' = v
    /\ outcome' = "pending"
    /\ previous' = outcome
    /\ UNCHANGED <<filename, factor, peak_count, max_spacing, min_vbal, outputs, shown, first>>

EditFactor ==
    /\ outcome # "pending"
    /\ \E v \in SessionFactorValues : v # factor /\ factor' = v
    /\ outcome' = "pending"
    /\ previous' = outcome
    /\ UNCHANGED <<filename, top_avg, peak_count, max_spacing, min_vbal, outputs, shown, first>>

EditPeakCount ==
    /\ outcome # "pending"
    /\ \E v \in SessionPeakCountValues : v # peak_count /\ peak_count' = v
    /\ outcome' = "pending"
    /\ previous' = outcome
    /\ UNCHANGED <<filename, top_avg, factor, max_spacing, min_vbal, outputs, shown, first>>

EditMaxSpacing ==
    /\ outcome # "pending"
    /\ \E v \in SessionMaxSpacingValues : v # max_spacing /\ max_spacing' = v
    /\ outcome' = "pending"
    /\ previous' = outcome
    /\ UNCHANGED <<filename, top_avg, factor, peak_count, min_vbal, outputs, shown, first>>

EditMinVbal ==
    /\ outcome # "pending"
    /\ \E v \in SessionMinVbalValues : v # min_vbal /\ min_vbal' = v
    /\ outcome' = "pending"
    /\ previous' = outcome
    /\ UNCHANGED <<filename, top_avg, factor, peak_count, max_spacing, outputs, shown, first>>

\* ---------------------------------------------------------- specifications
\* No callback has run: an empty figure, no table data, the first call due
Untouched ==
    /\ man_plot = <<>>
    /\ called_table = <<>>
    /\ outcome = "pending"
    /\ previous = "none"
    /\ shown = <<>>
    /\ first = NoRun

\* A dashboard session.  The layout of lines 58-147: the first file listed
\* and the components' initial values.
Init ==
    /\ filename \in SessionFiles
    /\ top_avg = Num(0)
    /\ factor = Num(FactorValue)
    /\ peak_count = Num(PeakCountValue)
    /\ max_spacing = Num(MaxSpacingValue)
    /\ min_vbal = Num(MinVbalValue)
    /\ Untouched

Next ==
    \/ Callback
    \/ SelectFile
    \/ SelectTopAvg
    \/ EditFactor
    \/ EditPeakCount
    \/ EditMaxSpacing
    \/ EditMinVbal

Spec == Init /\ [][Next]_vars

\* One call of update_graph: on any marker, any averages and window index
\* and the multipliers 1 and 1.33, or on a table of plain markers or a
\* cleared file dropdown and any values of the components.
InitCall ==
    /\ \/ /\ filename \in AnyFiles
          /\ top_avg \in TopAvgValues
          /\ factor \in {Num(100), Num(FactorValue)}
          /\ peak_count = Num(PeakCountValue)
          /\ max_spacing = Num(MaxSpacingValue)
          /\ min_vbal = Num(MinVbalValue)
       \/ /\ filename \in {NoFile} \cup PlainFiles
          /\ top_avg \in TopAvgValues
          /\ factor \in FactorValues
          /\ peak_count \in PeakCountValues
          /\ max_spacing \in MaxSpacingValues
          /\ min_vbal \in MinVbalValues
    /\ Untouched

NextCall == Callback

SpecCall == InitCall /\ [][NextCall]_vars

\* ------------------------------------------------------------ properties
\* The last callback returned: the outputs are those of the components'
\* present values.
Done == outcome = "returned"

Markers == DOMAIN filename.rows
Marker(i) == filename.rows[i]
Score(i) == -Marker(i).p_wald

IdxOf(frame) == {frame[j].idx : j \in 1..Len(frame)}

\* The three point sets of a figure, and the rows of the table
BackgroundOf(fig) == UNION {IdxOf(fig[c].not_called) : c \in DOMAIN fig}
DetectedOf(fig) == UNION {IdxOf(fig[c].harvester_called) : c \in DOMAIN fig}
AcceptedOf(fig) == UNION {IdxOf(fig[c].called) : c \in DOMAIN fig}
Background == BackgroundOf(man_plot)
Detected == DetectedOf(man_plot)
Accepted == AcceptedOf(man_plot)
Table == IdxOf(called_table)

\* The level of the noise line drawn over marker i's chromosome
NoiseAt(i) == man_plot[Marker(i).chr].noise[1]

\* x <= y for a finite x and a float y
Le(x, y) ==
    CASE y.k = "fin" -> x <= y.v
      [] y.k = "inf" -> TRUE
      [] OTHER -> FALSE

QualityEligible(i) ==
    /\ Marker(i).GQS # "None"
    /\ AsFloat(Marker(i).GQS) > GQSFloor

Numeric(v) == v.k = "num"
Blank == {None, Str("")}
Unparsable == {Str("abc")}

\* C1: after a run with numeric parameters, a marker is in the accepted
\* table iff its GQS is present and > 3, its score is > noise and
\* > bonferroni, its count > min_count, its spacing < max_spacing and its
\* vertical balance > min_vertical_balance, each comparison strict.
C1AcceptedIff ==
    (Done /\ Numeric(peak_count) /\ Numeric(max_spacing) /\ Numeric(min_vbal))
    => \A i \in Markers :
          i \in Table <=>
             /\ QualityEligible(i)
             /\ Gt(Score(i), NoiseAt(i))
             /\ Score(i) > bonferroni
             /\ Marker(i).count > peak_count.n
             /\ Marker(i).spacing < max_spacing.n
             /\ Marker(i).vbal1 > min_vbal.n

\* min_count = 50: of two markers that pass every other test, the one with
\* count 51 is in the table and the one with count 50 is not
C1Witness ==
    /\ Done
    /\ peak_count = Num(5000) /\ Numeric(max_spacing) /\ Numeric(min_vbal)
    /\ \E i, j \in Markers :
          /\ Marker(i).count = 5100 /\ i \in Table
          /\ Marker(j).count = 5000 /\ j \notin Table

\* C2 as stated: a marker whose score is <= noise or <= bonferroni is in
\* neither the detected set nor the accepted set.
C2NeitherDetectedNorAccepted ==
    Done => \A i \in Markers :
               (Le(Score(i), NoiseAt(i)) \/ Score(i) <= bonferroni)
               => i \notin Detected /\ i \notin Accepted

\* C2 amended: such a marker is never in the accepted set (nor the table),
\* and it is in the detected set exactly when its GQS is present and > 3.
C2NotAccepted ==
    Done => \A i \in Markers :
               (Le(Score(i), NoiseAt(i)) \/ Score(i) <= bonferroni)
               => /\ i \notin Accepted
                  /\ i \notin Table
                  /\ i \in Detected <=> QualityEligible(i)

\* a marker whose score equals the noise border, above bonferroni, that
\* passes every other test: detected, not accepted
C2Witness ==
    /\ Done
    /\ Numeric(peak_count) /\ Numeric(max_spacing) /\ Numeric(min_vbal)
    /\ \E i \in Markers :
          /\ NoiseAt(i) = Fin(Score(i))
          /\ Score(i) > bonferroni
          /\ QualityEligible(i)
          /\ Marker(i).count > peak_count.n
          /\ Marker(i).spacing < max_spacing.n
          /\ Marker(i).vbal1 > min_vbal.n
          /\ i \in Detected
          /\ i \notin Accepted

\* C3 as stated: the three sets are pairwise disjoint and their union is
\* the marker set.
C3Partition ==
    Done => /\ Background \cap Detected = {}
            /\ Background \cap Accepted = {}
            /\ Detected \cap Accepted = {}
            /\ Background \cup Detected \cup Accepted = Markers

\* C3 amended: the three sets are nested, accepted within detected within
\* background, and background is the whole marker set (the file's markers
\* are on chromosomes 1 to 5).
C3Nested ==
    Done => /\ Accepted \subseteq Detected
            /\ Detected \subseteq Background
            /\ Background = Markers

\* a marker in all three sets beside one in background alone
C3Witness ==
    /\ Done
    /\ \E i \in Markers : i \in Accepted /\ i \in Detected /\ i \in Background
    /\ \E j \in Markers : j \notin Detected /\ j \in Background

\* C4: a marker without a GQS is in neither the detected nor the accepted
\* set (nor the table), whatever the parameters.
C4NoGQSIsBackground ==
    Done => \A i \in Markers :
               Marker(i).GQS = "None"
               => i \notin Detected /\ i \notin Accepted /\ i \notin Table

\* a marker without a GQS that passes every other test
C4Witness ==
    /\ Done
    /\ Numeric(peak_count) /\ Numeric(max_spacing) /\ Numeric(min_vbal)
    /\ \E i \in Markers :
          /\ Marker(i).GQS = "None"
          /\ Gt(Score(i), NoiseAt(i))
          /\ Score(i) > bonferroni
          /\ Marker(i).count > peak_count.n
          /\ Marker(i).spacing < max_spacing.n
          /\ Marker(i).vbal1 > min_vbal.n
          /\ i \in Background

\* The call with each blank (C5) or unparsable (C8) value replaced by the
\* value the layout gives its component
Documented(v, lost, d) == IF v \in lost THEN Num(d) ELSE v

AsDocumented(lost) ==
    update_graph(filename,
                 Documented(top_avg, lost, 0),
                 Documented(factor, lost, FactorValue),
                 Documented(peak_count, lost, PeakCountValue),
                 Documented(max_spacing, lost, MaxSpacingValue),
                 Documented(min_vbal, lost, MinVbalValue))

Ended(r) ==
    IF r.raises # "" THEN outcome = r.raises
    ELSE Done /\ man_plot = r.fig /\ called_table = r.data

AllValues == {top_avg, factor, peak_count, max_spacing, min_vbal}

\* C5 as stated: a run with blank parameters (the others numeric) ends as
\* the run with 1.33, 50, 20000, 0.1 and 0 in their places does; with a
\* blank multiplier the noise line is at -log10(average) * 1.33.
C5BlankIsDocumentedDefault ==
    (/\ outcome # "pending"
     /\ \E v \in AllValues : v \in Blank
     /\ \A v \in AllValues : v \in Blank \/ Numeric(v))
    => Ended(AsDocumented(Blank))

\* C6 as stated: on a selected file, a window index outside 0..K-1 or a
\* non-positive selected average aborts the run, which returns no figure
\* and no table.
C6NoThreshold ==
    (/\ outcome # "pending"
     /\ Numeric(top_avg)
     /\ \A v \in AllValues : Numeric(v)
     /\ filename # NoFile
     /\ \/ top_avg.n \notin 0..(Len(filename.averages) - 1)
        \/ FloatOfStr(filename.averages[top_avg.n + 1]).sign # 1)
    => ~Done /\ man_plot = <<>> /\ called_table = <<>>

\* C7: with a positive selected average and a positive multiplier, every
\* larger multiplier gives a subset of the accepted table and a subset of
\* the detected and accepted markers.
Multipliers == {133, 200, 1000}

C7Monotone ==
    (/\ Done
     /\ Numeric(factor) /\ factor.n > 0
     /\ FloatOfStr(filename.averages[top_avg.n + 1]).sign = 1)
    => \A m \in Multipliers :
          m > factor.n
          => LET r == update_graph(filename, top_avg, Num(m), peak_count,
                                   max_spacing, min_vbal)
             IN /\ r.raises = ""
                /\ IdxOf(r.data) \subseteq Table
                /\ DetectedOf(r.fig) \cup AcceptedOf(r.fig)
                      \subseteq Detected \cup Accepted

\* an accepted marker under an average greater than 1, where a larger
\* multiplier lowers the noise border
C7Witness ==
    /\ Done
    /\ Numeric(factor) /\ factor.n > 0
    /\ FloatOfStr(filename.averages[top_avg.n + 1]) = [sign |-> 1, e |-> 100]
    /\ Table # {}
    /\ \E i \in Table : NoiseAt(i).v < 0

\* C8 as stated: a run with unparsable parameters (the others numeric)
\* ends as the run with the documented defaults in their places does.
C8UnparsableIsDocumentedDefault ==
    (/\ outcome # "pending"
     /\ \E v \in AllValues : v \in Unparsable
     /\ \A v \in AllValues : v \in Unparsable \/ Numeric(v))
    => Ended(AsDocumented(Unparsable))

\* C9: the table holds each accepted marker once and no other marker, by
\* chromosome 1 to 5 and, within a chromosome, in the order of the file.
C9TableOrder ==
    Done =>
       /\ Table = Accepted
       /\ Len(called_table) = Cardinality(Accepted)
       /\ \A j, k \in 1..Len(called_table) :
             j < k => \/ called_table[j].chr < called_table[k].chr
                      \/ /\ called_table[j].chr = called_table[k].chr
                         /\ called_table[j].idx < called_table[k].idx
       /\ \A j \in 1..Len(called_table) :
             /\ called_table[j].chr = Marker(called_table[j].idx).chr
             /\ called_table[j].idx \in
                   IdxOf(man_plot[called_table[j].chr].called)

\* a file whose first marker is on chromosome 2 and whose second is on
\* chromosome 1, both accepted: the table lists the second first
C9Witness ==
    /\ Done
    /\ Len(called_table) = 2
    /\ called_table[1].idx = 2 /\ called_table[1].chr = 1
    /\ called_table[2].idx = 1 /\ called_table[2].chr = 2

\* C10: whatever ran in between (runs on other files and parameters, runs
\* that failed), a run on the inputs of the session's first run ends as
\* the first run did: the same table, rows in the same order, and the
\* same figure.
C10Stateless ==
    (outcome # "pending" /\ inputs = first.inputs)
    => IF first.raises # "" THEN outcome = first.raises
       ELSE Done /\ called_table = first.data /\ man_plot = first.fig

\* the first run's table, of two rows that the table lists in the reverse
\* of the file's order, returned again by a run that began with another
\* table on show, right after a run that failed
C10Witness ==
    /\ Done
    /\ inputs = first.inputs
    /\ previous \in {"ValueError", "TypeError", "IndexError"}
    /\ shown # <<>> /\ shown # called_table
    /\ Len(called_table) = 2
    /\ called_table[1].idx = 2 /\ called_table[2].idx = 1

====
